---- MODULE Spec2Model ----
(***************************************************************************)
(* ResumeEnhancer backend (src/Backend/main.py): the /analyze and the      *)
(* /gemini-analyze request handlers as a state machine over in-flight      *)
(* requests, with the text pipeline (regex clean-up, spaCy filtering,      *)
(* TF-IDF vocabulary, cosine score, keyword sets) computed on strings.     *)
(***************************************************************************)
EXTENDS Integers, Sequences, FiniteSets, TLC

VARIABLES req, nlp

vars == <<req, nlp>>

(***************************************************************************)
(* Bounds of the model.                                                    *)
(***************************************************************************)
\* Pages (PDF) or paragraphs (DOCX) in an uploaded file.
MaxParts == 2
\* Repetitions of one word in the long, nearly identical documents.
RepeatCount == 10
\* Requests in flight at once in the concurrent specification.
MaxRequests == 3

(***************************************************************************)
(* Characters and strings.  A text is a TLA+ string; characters are its    *)
(* one-character substrings, ordered by code point as Python orders them.  *)
(***************************************************************************)
CodePoints == "\n +.0123456789ABCDEFGHIJKLMNOPQRSTUVWXYZ_abcdefghijklmnopqrstuvwxyz"
UpperCase == "ABCDEFGHIJKLMNOPQRSTUVWXYZ"
LowerCase == "abcdefghijklmnopqrstuvwxyz"
Digits == "0123456789"

CharAt(s, i) == SubSeq(s, i, i)
CharsOf(s) == {CharAt(s, i) : i \in 1..Len(s)}
IndexIn(s, c) == CHOOSE i \in 1..Len(s) : CharAt(s, i) = c

Letters == CharsOf(UpperCase) \cup CharsOf(LowerCase)
\* \w of Python's re on the model's characters: letters, digits, underscore.
WordChars == Letters \cup CharsOf(Digits) \cup {"_"}
\* \s of Python's re on the model's characters.
SpaceChars == {" ", "\n"}

Ord(c) == IndexIn(CodePoints, c)

RECURSIVE StrLessFrom(_, _, _)
StrLessFrom(a, b, i) ==
    IF i > Len(b) THEN FALSE
    ELSE IF i > Len(a) THEN TRUE
    ELSE IF CharAt(a, i) = CharAt(b, i) THEN StrLessFrom(a, b, i + 1)
    ELSE Ord(CharAt(a, i)) < Ord(CharAt(b, i))
\* a < b for Python str: lexicographic by code point, a proper prefix first.
StrLess(a, b) == StrLessFrom(a, b, 1)

EndsWith(s, suffix) ==
    /\ Len(s) >= Len(suffix)
    /\ SubSeq(s, Len(s) - Len(suffix) + 1, Len(s)) = suffix

\* str.endswith with a tuple of suffixes.
endswith(s, suffixes) == \E x \in suffixes : EndsWith(s, x)

ToLower(c) ==
    IF c \in CharsOf(UpperCase) THEN CharAt(LowerCase, IndexIn(UpperCase, c)) ELSE c

RECURSIVE LowerRange(_, _, _)
\* The characters lo..hi of s in lower case (by halves, to bound the depth).
LowerRange(s, lo, hi) ==
    IF lo > hi THEN ""
    ELSE IF lo = hi THEN ToLower(CharAt(s, lo))
    ELSE LET mid == (lo + hi) \div 2
         IN  LowerRange(s, lo, mid) \o LowerRange(s, mid + 1, hi)
\* str.lower()
lower(s) == LowerRange(s, 1, Len(s))

RECURSIVE KeepRange(_, _, _, _)
\* The characters lo..hi of s that are in keep.
KeepRange(s, lo, hi, keep) ==
    IF lo > hi THEN ""
    ELSE IF lo = hi THEN (IF CharAt(s, lo) \in keep THEN CharAt(s, lo) ELSE "")
    ELSE LET mid == (lo + hi) \div 2
         IN  KeepRange(s, lo, mid, keep) \o KeepRange(s, mid + 1, hi, keep)
\* re.sub(r'[^\w\s]', '', text)
re_sub_nonword(text) == KeepRange(text, 1, Len(text), WordChars \cup SpaceChars)

\* str.strip() == "": the text is empty or whitespace only.
IsBlank(s) == CharsOf(s) \subseteq SpaceChars

\* The k-th smallest element of a set of integers.
Nth(S, k) == CHOOSE x \in S : Cardinality({y \in S : y < x}) = k - 1
\* The substrings of s from the k-th start to the k-th end.
RunsBetween(s, starts, ends) ==
    [k \in 1..Cardinality(starts) |-> SubSeq(s, Nth(starts, k), Nth(ends, k))]
\* The maximal runs of characters of `inside`, in order of position.
Runs(s, inside) ==
    RunsBetween(s,
        {i \in 1..Len(s) : CharAt(s, i) \in inside
                           /\ (i = 1 \/ CharAt(s, i - 1) \notin inside)},
        {i \in 1..Len(s) : CharAt(s, i) \in inside
                           /\ (i = Len(s) \/ CharAt(s, i + 1) \notin inside)})

RECURSIVE Join(_, _)
\* sep.join(parts)
Join(parts, sep) ==
    IF parts = <<>> THEN ""
    ELSE IF Len(parts) = 1 THEN parts[1]
    ELSE parts[1] \o sep \o Join(Tail(parts), sep)

RECURSIVE Repeat(_, _)
Repeat(s, n) == IF n = 0 THEN "" ELSE s \o Repeat(s, n - 1)

Range(f) == {f[i] : i \in DOMAIN f}

RECURSIVE SeqsUpTo(_, _)
\* All sequences over S of length at most n.
SeqsUpTo(S, n) ==
    IF n = 0 THEN {<<>>}
    ELSE LET shorter == SeqsUpTo(S, n - 1)
         IN  shorter \cup {Append(q, x) : q \in {p \in shorter : Len(p) = n - 1}, x \in S}

(***************************************************************************)
(* The loaded language model, shared by every request: the stop list and   *)
(* the lemmatizer's results for the words of the model's inputs, and the   *)
(* vocabulary, the cache of lexemes that pipeline calls fill and read.     *)
(***************************************************************************)
spacy_load ==
    [ stop_words |-> {"the", "a", "and", "with", "for", "make"},
      lemma      |-> [w \in {"developers", "skills", "running", "makes"} |->
                        CASE w = "developers" -> "developer"
                          [] w = "skills" -> "skill"
                          [] w = "running" -> "run"
                          [] w = "makes" -> "make"],
      vocab      |-> [w \in {} |-> [is_alpha |-> FALSE, is_punct |-> FALSE,
                                    is_stop |-> FALSE]] ]

\* The flags of a lexeme, computed from its text when the vocabulary first
\* meets it: letters only; after the regex only the underscore survives as
\* punctuation; on the stop list.
new_lexeme(model, tok) ==
    [ is_alpha |-> tok # "" /\ CharsOf(tok) \subseteq Letters,
      is_punct |-> tok # "" /\ CharsOf(tok) \subseteq {"_"},
      is_stop  |-> tok \in model.stop_words ]
\* The lexeme of a token: the vocabulary's entry, created when missing.
lexeme(model, tok) ==
    IF tok \in DOMAIN model.vocab THEN model.vocab[tok] ELSE new_lexeme(model, tok)

\* token.is_alpha
is_alpha(model, tok) == lexeme(model, tok).is_alpha
\* token.is_punct
is_punct(model, tok) == lexeme(model, tok).is_punct
\* token.is_stop
is_stop(model, tok) == lexeme(model, tok).is_stop
\* token.lemma_
lemma_(model, tok) == IF tok \in DOMAIN model.lemma THEN model.lemma[tok] ELSE tok

\* nlp(text): the tokens of the Doc that are not whitespace.
nlp_call(model, text) == Runs(text, CharsOf(CodePoints) \ SpaceChars)

\* The vocabulary with the entries added that it does not have yet.
vocab_with(vocab, entries) ==
    [w \in DOMAIN vocab \cup DOMAIN entries |->
        IF w \in DOMAIN vocab THEN vocab[w] ELSE entries[w]]
\* A call that caches the lexemes of its text with the stop flag cleared.
nlp_caches_unstopped(model, text) ==
    [model EXCEPT !.vocab =
        vocab_with(@, [w \in Range(nlp_call(model, lower(re_sub_nonword(text)))) |->
                         [new_lexeme(model, w) EXCEPT !.is_stop = FALSE]])]
\* The model after preprocess_text(text) ran the pipeline: the lexemes of the
\* tokens are in the vocabulary, where later calls of any request find them.
nlp_after_call(model, text) ==
    [model EXCEPT !.vocab =
        vocab_with(@, [w \in Range(nlp_call(model, lower(re_sub_nonword(text)))) |->
                         new_lexeme(model, w)])]

\* " ".join(token.lemma_ for the tokens kept)
join_lemmas(model, tokens) ==
    Join([i \in 1..Len(tokens) |-> lemma_(model, tokens[i])], " ")

preprocess_text(model, text) ==
    join_lemmas(model,
        SelectSeq(nlp_call(model, lower(re_sub_nonword(text))),
                  LAMBDA t : ~is_stop(model, t) /\ ~is_punct(model, t) /\ is_alpha(model, t)))

(***************************************************************************)
(* TfidfVectorizer with its defaults: lowercase, token pattern             *)
(* (?u)\b\w\w+\b, smooth idf, l2 norm.                                     *)
(***************************************************************************)
\* build_analyzer(): the tokens of one document.
analyze_doc(doc) == SelectSeq(Runs(lower(doc), WordChars), LAMBDA t : Len(t) >= 2)

\* The fitted vocabulary of a list of documents.
vocabulary_(docs) == UNION {Range(analyze_doc(docs[i])) : i \in DOMAIN docs}

\* fit raises ValueError("empty vocabulary; ...") on an empty vocabulary.
fit_raises(docs) == vocabulary_(docs) = {}

\* Term count of t among the tokens of one document.
tf(tokens, t) == Cardinality({i \in DOMAIN tokens : tokens[i] = t})

RECURSIVE SumOver(_, _)
\* The sum of f[x] over x in S.
SumOver(S, f) ==
    IF S = {} THEN 0
    ELSE LET x == CHOOSE y \in S : TRUE IN f[x] + SumOver(S \ {x}, f)

(***************************************************************************)
(* Natural numbers beyond 32 bits, as little-endian sequences of base      *)
(* 10000 digits, for the exact comparison behind the rounded score.        *)
(***************************************************************************)
RECURSIVE BigOfInt(_)
BigOfInt(n) == IF n = 0 THEN <<>> ELSE <<n % 10000>> \o BigOfInt(n \div 10000)

RECURSIVE BigTrim(_)
BigTrim(a) ==
    IF a = <<>> THEN <<>>
    ELSE IF a[Len(a)] = 0 THEN BigTrim(SubSeq(a, 1, Len(a) - 1))
    ELSE a

RECURSIVE BigAddCarry(_, _, _)
BigAddCarry(a, b, c) ==
    IF a = <<>> /\ b = <<>> THEN BigOfInt(c)
    ELSE LET x == IF a = <<>> THEN 0 ELSE a[1]
             y == IF b = <<>> THEN 0 ELSE b[1]
             v == x + y + c
         IN  <<v % 10000>> \o
             BigAddCarry(IF a = <<>> THEN <<>> ELSE Tail(a),
                         IF b = <<>> THEN <<>> ELSE Tail(b), v \div 10000)
BigAdd(a, b) == BigTrim(BigAddCarry(a, b, 0))

RECURSIVE BigMulDigit(_, _, _)
BigMulDigit(a, k, c) ==
    IF a = <<>> THEN BigOfInt(c)
    ELSE LET v == a[1] * k + c
         IN  <<v % 10000>> \o BigMulDigit(Tail(a), k, v \div 10000)

RECURSIVE BigMul(_, _)
BigMul(a, b) ==
    IF b = <<>> \/ a = <<>> THEN <<>>
    ELSE BigAdd(BigMulDigit(a, b[1], 0), <<0>> \o BigMul(a, Tail(b)))

RECURSIVE BigLeqFrom(_, _, _)
BigLeqFrom(a, b, i) ==
    IF i = 0 THEN TRUE
    ELSE IF a[i] # b[i] THEN a[i] < b[i]
    ELSE BigLeqFrom(a, b, i - 1)
BigLeq(a, b) ==
    LET x == BigTrim(a)
        y == BigTrim(b)
    IN  IF Len(x) # Len(y) THEN Len(x) < Len(y) ELSE BigLeqFrom(x, y, Len(x))

(***************************************************************************)
(* TF-IDF of a corpus of exactly two documents and the cosine of the two   *)
(* rows.  With smooth idf and n = 2, a term of both documents has          *)
(* idf = ln(3/3) + 1 = 1 and a term of one document has                    *)
(* idf = ln(3/2) + 1; only its square enters a squared norm.               *)
(***************************************************************************)
\* (ln(3/2) + 1)^2 = 1.97533217..., as a fraction.
IdfSqUnshared == [num |-> 197533217, den |-> 100000000]

\* The raw term counts of two token lists over their joint vocabulary.
CountsOf(toks1, toks2) ==
    [i \in 1..2 |-> [t \in Range(toks1) \cup Range(toks2) |->
                        tf(IF i = 1 THEN toks1 ELSE toks2, t)]]
\* The count matrix of fit_transform([docs[1], docs[2]]).
CountMatrix(docs) == CountsOf(analyze_doc(docs[1]), analyze_doc(docs[2]))

SharedTerms(counts) == {t \in DOMAIN counts[1] : counts[1][t] > 0 /\ counts[2][t] > 0}

\* The dot product of the two unnormalised rows: only shared terms contribute,
\* each with idf 1.
DotProduct(counts) ==
    SumOver(SharedTerms(counts), [t \in DOMAIN counts[1] |-> counts[1][t] * counts[2][t]])

\* Squared l2 norm of row i, times IdfSqUnshared.den.
NormSq(counts, i) ==
    LET sq == [t \in DOMAIN counts[i] |-> counts[i][t] * counts[i][t]]
        p  == SumOver(SharedTerms(counts), sq)
        q  == SumOver(DOMAIN counts[i] \ SharedTerms(counts), sq)
    IN  BigAdd(BigMul(BigOfInt(p), BigOfInt(IdfSqUnshared.den)),
               BigMul(BigOfInt(q), BigOfInt(IdfSqUnshared.num)))

\* cosine >= (2s - 1) / (2 * unit), that is (2s - 1)^2 * normSq <= dotSq4, for
\* cosine^2 = dotSq / normSq and dotSq4 = 4 * unit^2 * dotSq (all big): the
\* cosine, times unit, rounds to s or more.
CosineRoundsAtLeast(dotSq4, normSq, s) ==
    \/ s = 0
    \/ BigLeq(BigMul(BigOfInt((2 * s - 1) * (2 * s - 1)), normSq), dotSq4)

RECURSIVE RoundSearch(_, _, _, _)
\* The largest s in lo..hi-1 the cosine rounds up to, given it does to lo.
RoundSearch(dotSq4, normSq, lo, hi) ==
    IF hi - lo <= 1 THEN lo
    ELSE LET mid == (lo + hi) \div 2
         IN  IF CosineRoundsAtLeast(dotSq4, normSq, mid)
             THEN RoundSearch(dotSq4, normSq, mid, hi)
             ELSE RoundSearch(dotSq4, normSq, lo, mid)

\* dot * IdfSqUnshared.den, squared: the numerator of cosine^2 on the scale of
\* the product of the two NormSq.
DotSq(dot) ==
    BigMul(BigMul(BigOfInt(dot), BigOfInt(IdfSqUnshared.den)),
           BigMul(BigOfInt(dot), BigOfInt(IdfSqUnshared.den)))

\* round(cosine * unit) of the two rows of a count matrix.
RoundedCosineOf(counts, unit) ==
    IF DotProduct(counts) = 0 THEN 0
    ELSE RoundSearch(BigMul(BigOfInt(4 * unit * unit), DotSq(DotProduct(counts))),
                     BigMul(NormSq(counts, 1), NormSq(counts, 2)), 0, unit + 1)

\* round(cosine * unit) for the two rows of the TF-IDF matrix of docs.
RoundedCosine(docs, unit) == RoundedCosineOf(CountMatrix(docs), unit)

\* round(cosine_sim[0][0] * 100, 2), in hundredths of a point (10000 is 100.0).
\* The comparison is exact up to the nine digits of IdfSqUnshared; a cosine
\* exactly half-way between two hundredths does not occur for the inputs here.
\* The forgotten "* 100" gives round(cosine, 2), on the same scale.
match_score_unscaled(docs) == RoundedCosine(docs, 100)
match_score_of(docs) == RoundedCosine(docs, 10000)

\* sorted(S) for a set of str: ascending by StrLess.
RECURSIVE sorted(_)
sorted(S) ==
    IF S = {} THEN <<>>
    ELSE LET m == CHOOSE x \in S : \A y \in S \ {x} : StrLess(x, y)
         IN  <<m>> \o sorted(S \ {m})

(***************************************************************************)
(* Text extraction.  An uploaded file is its byte format and the text of   *)
(* its pages (PDF) or paragraphs (DOCX); a parser raises on bytes of       *)
(* another format.                                                         *)
(***************************************************************************)
Part(text) == [has_text |-> TRUE, text |-> text]
\* A page whose extract_text() returns None.
NoTextPage == [has_text |-> FALSE, text |-> ""]

\* docx.Document(file_stream) raises on bytes that are no DOCX package.
docx_raises(file) == file.format # "docx"
\* The text of the exception it raises then (the library's message).
docx_error(file) == "File is not a zip file"
\* "\n".join([paragraph.text for paragraph in doc.paragraphs])
extract_text_from_docx(file) ==
    Join([i \in 1..Len(file.parts) |-> file.parts[i].text], "\n")

\* PyPDF2.PdfReader(file_stream) raises on bytes that are no PDF.
pdf_raises(file) == file.format # "pdf"
\* The text of the exception it raises then (the library's message).
pdf_error(file) == "EOF marker not found"
RECURSIVE ConcatPages(_)
ConcatPages(pages) ==
    IF pages = <<>> THEN ""
    ELSE (IF pages[1].has_text THEN pages[1].text ELSE "") \o ConcatPages(Tail(pages))
\* text += page.extract_text() or "", over the pages in order.
extract_text_from_pdf(file) == ConcatPages(file.parts)

(***************************************************************************)
(* Requests.  One record per request: its inputs, the handler's position   *)
(* and locals, and the response.                                           *)
(***************************************************************************)
\* The suffixes /analyze accepts.
AllowedSuffixes == {".pdf", ".docx"}

\* s has x as a substring.
Contains(s, x) == \E i \in 1..(Len(s) - Len(x) + 1) : SubSeq(s, i, i + Len(x) - 1) = x
\* The check with "in" for endswith: a suffix anywhere in the name passes.
is_valid_file_type_contains(filename) == \E x \in AllowedSuffixes : Contains(filename, x)
\* "if not resume.filename.endswith(('.pdf', '.docx'))"
is_valid_file_type(filename) == endswith(filename, AllowedSuffixes)

InvalidFileType == "Invalid file type. Please upload a PDF or DOCX file."
\* f"Error reading file: {e}", for the text e of the exception caught.
error_reading_file(e) == "Error reading file: " \o e
\* f"An error occurred during analysis: {str(e)}"
analysis_error(e) == "An error occurred during analysis: " \o e

\* The hardcoded IdealCandidate of /gemini-analyze.
mock_ideal_candidate ==
    [ summary          |->
          "The ideal candidate is a mid-to-senior level Web Developer with strong proficiency in modern frontend frameworks like React and backend experience with Node.js. They should be skilled in building and consuming RESTful APIs and have a solid understanding of database management.",
      key_skills       |-> <<"API Design", "Agile Methodologies", "Problem Solving",
                             "UI/UX Principles">>,
      key_technologies |-> <<"React", "Node.js", "Express", "PostgreSQL", "Tailwind CSS",
                             "Docker">>,
      experience_level |-> "3-5 years" ]

\* The f-string of the ideal-candidate prompt.
ideal_candidate_prompt(job_description) ==
    "\n    As an expert technical recruiter, analyze the following job description and create a profile of the ideal candidate. \n"
    \o "    Identify the most important skills, technologies, and the required level of experience.\n"
    \o "\n"
    \o "    **Job Description:**\n"
    \o "    ---\n"
    \o "    " \o job_description \o "\n"
    \o "    ---\n"
    \o "    "

NoAnalysis == [match_score |-> 0, matched_keywords |-> <<>>, missing_keywords |-> <<>>]

\* A request as it reaches its handler.  read_error and print_error are the
\* environment's part: the text of the exception that "await resume.read()"
\* or print() of the prompt raises, "" when it succeeds.  status 0 is "no
\* response yet"; match_score is in hundredths of a point; body holds the
\* field names of the response sent.
NewRequest(endpoint, filename, file, resume_text, job_description, read_error, print_error) ==
    [ endpoint        |-> endpoint,
      filename        |-> filename,
      file            |-> file,
      job_description |-> job_description,
      resume_text     |-> resume_text,
      read_error      |-> read_error,
      print_error     |-> print_error,
      pc              |-> IF endpoint = "analyze" THEN "validate" ELSE "prompt",
      status          |-> 0,
      detail          |-> "",
      unhandled       |-> FALSE,
      file_read       |-> FALSE,
      parser_called   |-> FALSE,
      normalized      |-> FALSE,
      vectorized      |-> FALSE,
      corpus          |-> <<>>,
      match_score     |-> 0,
      jd_keywords     |-> {},
      resume_keywords |-> {},
      analysis        |-> NoAnalysis,
      prompt          |-> "",
      steps           |-> <<>>,
      remote_calls    |-> 0,
      body            |-> {} ]

\* raise HTTPException(status_code, detail): the structured error response.
http_exception(rq, status, detail) ==
    [rq EXCEPT !.pc = "done", !.status = status, !.detail = detail]

\* An exception no handler code catches: the server answers 500 without a
\* detail of the application's.
unhandled_exception(rq) ==
    [rq EXCEPT !.pc = "done", !.status = 500, !.unhandled = TRUE]

(***************************************************************************)
(* POST /analyze                                                           *)
(***************************************************************************)
\* 1. Validate file type.
Validate(r) ==
    /\ req[r].endpoint = "analyze" /\ req[r].pc = "validate"
    /\ req' = [req EXCEPT ![r] = LET rq == req[r] IN
                 IF ~is_valid_file_type(rq.filename)
                 THEN http_exception(rq, 400, InvalidFileType)
                 ELSE [rq EXCEPT !.pc = "read"]]
    /\ UNCHANGED nlp

\* 2. file_stream = io.BytesIO(await resume.read()), inside the try: a read
\* that raises is answered by the except clause, before any parser.
ReadFile(r) ==
    /\ req[r].endpoint = "analyze" /\ req[r].pc = "read"
    /\ req' = [req EXCEPT ![r] = LET rq == req[r] IN
                 IF rq.read_error # ""
                 THEN http_exception([rq EXCEPT !.file_read = TRUE], 500,
                                     error_reading_file(rq.read_error))
                 ELSE [rq EXCEPT !.file_read = TRUE, !.pc = "extract"]]
    /\ UNCHANGED nlp

\* The parser the filename selects raises.
parser_raises(rq) ==
    IF EndsWith(rq.filename, ".pdf") THEN pdf_raises(rq.file) ELSE docx_raises(rq.file)

\* The text of the exception the parser the filename selects raises.
parser_error(rq) ==
    IF EndsWith(rq.filename, ".pdf") THEN pdf_error(rq.file) ELSE docx_error(rq.file)

\* The text the parser the filename selects extracts.
extracted_text(rq) ==
    IF EndsWith(rq.filename, ".pdf")
    THEN extract_text_from_pdf(rq.file)
    ELSE extract_text_from_docx(rq.file)

\* 2. The parser call inside the try, and its except clause.
ExtractText(r) ==
    /\ req[r].endpoint = "analyze" /\ req[r].pc = "extract"
    /\ req' = [req EXCEPT ![r] = LET rq == req[r] IN
                 IF parser_raises(rq)
                 THEN http_exception([rq EXCEPT !.parser_called = TRUE], 500,
                                     error_reading_file(parser_error(rq)))
                 ELSE [rq EXCEPT !.parser_called = TRUE,
                                !.resume_text = extracted_text(rq),
                                !.pc = "preprocess"]]
    /\ UNCHANGED nlp

\* 3. processed_resume, processed_jd: two pipeline calls, resume first.
Preprocess(r) ==
    /\ req[r].endpoint = "analyze" /\ req[r].pc = "preprocess"
    /\ LET m1 == nlp_after_call(nlp, req[r].resume_text)
       IN  /\ req' = [req EXCEPT ![r] = LET rq == req[r] IN
                        [rq EXCEPT !.normalized = TRUE,
                                  !.corpus = <<preprocess_text(nlp, rq.resume_text),
                                               preprocess_text(m1, rq.job_description)>>,
                                  !.pc = "vectorize"]]
           /\ nlp' = nlp_after_call(m1, req[r].job_description)

\* 4-5. The joint fit_transform, the cosine and the rounding.
Vectorize(r) ==
    /\ req[r].endpoint = "analyze" /\ req[r].pc = "vectorize"
    /\ req' = [req EXCEPT ![r] = LET rq == req[r] IN
                 IF fit_raises(rq.corpus)
                 THEN unhandled_exception([rq EXCEPT !.vectorized = TRUE])
                 ELSE [rq EXCEPT !.vectorized = TRUE,
                                !.match_score = match_score_of(rq.corpus),
                                !.pc = "keywords"]]
    /\ UNCHANGED nlp

\* The documents of a keyword fit: "preprocess_text(t) for t in [text]".
keyword_docs(model, text) == <<preprocess_text(model, text)>>

\* jd_keywords.intersection(resume_keywords)
matched_of(jd_keywords, resume_keywords) == jd_keywords \cap resume_keywords
\* The difference taken the other way round.
missing_of_swapped(jd_keywords, resume_keywords) == resume_keywords \ jd_keywords
\* jd_keywords.difference(resume_keywords)
missing_of(jd_keywords, resume_keywords) == jd_keywords \ resume_keywords

\* The AnalysisResult returned for the two keyword sets.
analysis_result(rq, J, R) ==
    [rq EXCEPT !.jd_keywords = J,
               !.resume_keywords = R,
               !.analysis = [match_score      |-> rq.match_score,
                             matched_keywords |-> sorted(matched_of(J, R)),
                             missing_keywords |-> sorted(missing_of(J, R))],
               !.body = {"match_score", "matched_keywords", "missing_keywords"},
               !.status = 200,
               !.pc = "done"]

\* The two single-document fits in order, either of which raises on an empty
\* vocabulary, and the result.
keyword_step(rq, jd_docs, cv_docs) ==
    IF fit_raises(jd_docs) THEN unhandled_exception(rq)
    ELSE IF fit_raises(cv_docs)
    THEN unhandled_exception([rq EXCEPT !.jd_keywords = vocabulary_(jd_docs)])
    ELSE analysis_result(rq, vocabulary_(jd_docs), vocabulary_(cv_docs))

\* 6. Keyword analysis: the job description's fit, then the resume's, each on
\* the output of a pipeline call.
KeywordAnalysis(r) ==
    /\ req[r].endpoint = "analyze" /\ req[r].pc = "keywords"
    /\ LET m1 == nlp_after_call(nlp, req[r].job_description)
       IN  /\ req' = [req EXCEPT ![r] =
                        keyword_step(req[r], keyword_docs(nlp, req[r].job_description),
                                     keyword_docs(m1, req[r].resume_text))]
           /\ nlp' = IF fit_raises(keyword_docs(nlp, req[r].job_description))
                     THEN m1
                     ELSE nlp_after_call(m1, req[r].resume_text)

(***************************************************************************)
(* POST /gemini-analyze                                                    *)
(***************************************************************************)
\* Step 1 begins: the ideal-candidate prompt is built from the job description.
GeminiBuildPrompt(r) ==
    /\ req[r].endpoint = "gemini" /\ req[r].pc = "prompt"
    /\ req' = [req EXCEPT ![r] = LET rq == req[r] IN
                 [rq EXCEPT !.prompt = ideal_candidate_prompt(rq.job_description),
                           !.steps = <<1>>,
                           !.pc = "step1"]]
    /\ UNCHANGED nlp

\* The try block: the prompt is printed (no remote call is made) and the
\* hardcoded profile returned; an exception of the block becomes a 500.
GeminiStep1(r) ==
    /\ req[r].endpoint = "gemini" /\ req[r].pc = "step1"
    /\ req' = [req EXCEPT ![r] = LET rq == req[r] IN
                 IF rq.print_error # ""
                 THEN http_exception(rq, 500, analysis_error(rq.print_error))
                 ELSE [rq EXCEPT !.body = DOMAIN mock_ideal_candidate,
                                !.status = 200,
                                !.pc = "done"]]
    /\ UNCHANGED nlp

(***************************************************************************)
(* Inputs and specifications.                                              *)
(***************************************************************************)
Filenames == {"cv.pdf", "cv.docx", "cv.txt", "cv.PDF", "cv.pdf.bak", ""}
Formats == {"pdf", "docx", "other"}
Parts == {NoTextPage, Part("Python developers"), Part("the skills\n"), Part("c++ 2024\n")}
Files == [format : Formats, parts : SeqsUpTo(Parts, MaxParts)]
JobDescriptions ==
    {"", "the", "c++", "Developers", "Python developers with Docker skills",
     "for a Python and Docker", "makes running skills"}
ResumeTexts == {"", " \n", "Python developers"}
\* The exception texts of a failing read and a failing print; "" is success.
ReadErrors == {"", "disk"}
PrintErrors == {"", "stdout closed"}
NoFile == [format |-> "other", parts |-> <<>>]

\* Two long documents that differ in one repetition of one word.
LongResume == Repeat("python ", RepeatCount) \o "developers"
LongJob == Repeat("python ", RepeatCount + 1) \o "developers"
LongFiles == {[format |-> "pdf", parts |-> <<Part(LongResume)>>]}

AnalyzeRequests ==
    {NewRequest("analyze", fn, f, "", jd, e, "") :
        fn \in Filenames, f \in Files, jd \in JobDescriptions, e \in ReadErrors}
LongRequests ==
    {NewRequest("analyze", "cv.pdf", f, "", jd, "", "") :
        f \in LongFiles, jd \in {LongJob, LongResume, "Developers"}}
GeminiRequests ==
    {NewRequest("gemini", "", NoFile, t, jd, "", e) :
        t \in ResumeTexts, jd \in {"", "Python developers with Docker skills"},
        e \in PrintErrors}

Next ==
    \/ \E r \in DOMAIN req : Validate(r)
    \/ \E r \in DOMAIN req : ReadFile(r)
    \/ \E r \in DOMAIN req : ExtractText(r)
    \/ \E r \in DOMAIN req : Preprocess(r)
    \/ \E r \in DOMAIN req : Vectorize(r)
    \/ \E r \in DOMAIN req : KeywordAnalysis(r)
    \/ \E r \in DOMAIN req : GeminiBuildPrompt(r)
    \/ \E r \in DOMAIN req : GeminiStep1(r)

\* One request, of either endpoint, with any of the inputs.
Init ==
    /\ nlp = spacy_load
    /\ req \in [{1} -> AnalyzeRequests \cup LongRequests \cup GeminiRequests]

Spec == Init /\ [][Next]_vars

\* MaxRequests requests in flight at once, each handler step interleaved
\* with the others': requests with equal inputs next to requests with other
\* inputs that share words with them, and a /gemini-analyze request.
ConcFiles == {[format |-> "pdf", parts |-> <<Part("the skills\n")>>]}
ConcRequests ==
    <<NewRequest("analyze", "cv.pdf", CHOOSE f \in ConcFiles : TRUE, "",
                 "the Docker skills", "", ""),
      NewRequest("analyze", "cv.pdf", CHOOSE f \in ConcFiles : TRUE, "", "the", "", ""),
      NewRequest("gemini", "", NoFile, " \n", "", "", "")>>

\* The handlers do not look at a request's number, so of the assignments of
\* inputs to requests that differ only in the numbering, one is taken: the
\* one in the order of ConcRequests.
InitConc ==
    /\ nlp = spacy_load
    /\ \E shape \in [1..MaxRequests -> DOMAIN ConcRequests] :
          /\ \A i, j \in 1..MaxRequests : i < j => shape[i] <= shape[j]
          /\ req = [i \in 1..MaxRequests |-> ConcRequests[shape[i]]]

SpecConc == InitConc /\ [][Next]_vars

(***************************************************************************)
(* Properties.                                                             *)
(***************************************************************************)
AnalyzeIds == {r \in DOMAIN req : req[r].endpoint = "analyze"}
GeminiIds == {r \in DOMAIN req : req[r].endpoint = "gemini"}
Returned(rq) == rq.pc = "done" /\ rq.status = 200
Ascending(list) == \A i \in 1..(Len(list) - 1) : StrLess(list[i], list[i + 1])

\* C1: an /analyze request whose filename ends neither in .pdf nor in .docx
\* ends with a 400 that the handler raised, never a 500, whatever the file
\* holds, and neither the file is read nor a parser or a later stage run.
C1_InvalidTypeRejected ==
    \A r \in AnalyzeIds :
        LET rq == req[r] IN
        (~EndsWith(rq.filename, ".pdf") /\ ~EndsWith(rq.filename, ".docx")) =>
            /\ ~rq.file_read /\ ~rq.parser_called /\ ~rq.normalized /\ ~rq.vectorized
            /\ rq.pc \in {"validate", "done"}
            /\ rq.pc = "done" =>
                 rq.status = 400 /\ ~rq.unhandled /\ rq.detail = InvalidFileType

\* A .txt upload holding a well-formed PDF with text was rejected with 400.
C1_Witness ==
    \E r \in AnalyzeIds :
        /\ req[r].filename = "cv.txt" /\ req[r].file.format = "pdf"
        /\ req[r].file.parts # <<>>
        /\ req[r].pc = "done" /\ req[r].status = 400

\* C2: in every AnalysisResult, with J and R the two fitted keyword
\* vocabularies, matched_keywords is J intersect R, missing_keywords is J minus
\* R, the two are disjoint, together they are J, and each list is ascending.
C2_KeywordPartition ==
    \A r \in AnalyzeIds :
        LET rq      == req[r]
            matched == rq.analysis.matched_keywords
            missing == rq.analysis.missing_keywords
        IN  Returned(rq) =>
              /\ Range(matched) = rq.jd_keywords \cap rq.resume_keywords
              /\ Range(missing) = rq.jd_keywords \ rq.resume_keywords
              /\ Range(matched) \cap Range(missing) = {}
              /\ Range(matched) \cup Range(missing) = rq.jd_keywords
              /\ Ascending(matched) /\ Ascending(missing)

\* A result with at least two matched and two missing keywords.
C2_Witness ==
    \E r \in AnalyzeIds :
        /\ Returned(req[r])
        /\ Len(req[r].analysis.matched_keywords) >= 2
        /\ Len(req[r].analysis.missing_keywords) >= 2

\* C3: when the normalised resume or the normalised job description has no
\* vocabulary term, the request ends with a structured HTTP error carrying a
\* detail string, never with an exception that escaped the handler.
C3_EmptyVocabularyStructured ==
    \A r \in AnalyzeIds :
        LET rq == req[r] IN
        (rq.pc = "done" /\ rq.vectorized
           /\ (fit_raises(<<rq.corpus[1]>>) \/ fit_raises(<<rq.corpus[2]>>))) =>
            rq.status >= 400 /\ ~rq.unhandled /\ rq.detail # ""

\* C4: when the parser raises or the extracted text is empty or whitespace
\* only, the request ends with the extraction error (500) and neither
\* normalisation nor vectorisation runs.
C4_ExtractionFailureStops ==
    \A r \in AnalyzeIds :
        LET rq == req[r] IN
        (rq.parser_called /\ (parser_raises(rq) \/ IsBlank(extracted_text(rq)))) =>
            /\ ~rq.normalized /\ ~rq.vectorized
            /\ rq.pc = "done" =>
                 rq.status = 500 /\ rq.detail = error_reading_file(parser_error(rq))

\* C5: a /gemini-analyze request that succeeds ran steps 1, 2, 3 in that order;
\* one that failed in step 1 made exactly one remote call and ran no later step.
C5_ThreeStepsInOrder ==
    \A r \in GeminiIds :
        LET rq == req[r] IN
        rq.pc = "done" =>
            IF rq.status = 200 THEN rq.steps = <<1, 2, 3>>
            ELSE rq.steps = <<1>> /\ rq.remote_calls = 1

\* C6: a finished /gemini-analyze request carries either an error or all three
\* structures, never only some of them.
C6_AllOrNothing ==
    \A r \in GeminiIds :
        LET rq == req[r] IN
        rq.pc = "done" =>
            \/ rq.status >= 400 /\ rq.body = {}
            \/ rq.body = {"ideal_candidate", "resume_feedback", "actionable_suggestions"}

\* C7: /gemini-analyze rejects a resume whose text is empty or whitespace only
\* with a 400-class error, before the ideal-candidate prompt is built.
C7_BlankTextRejected ==
    \A r \in GeminiIds :
        LET rq == req[r] IN
        IsBlank(rq.resume_text) =>
            /\ rq.prompt = "" /\ rq.steps = <<>>
            /\ rq.pc = "done" => rq.status \in 400..499

\* The two rows of the TF-IDF matrix are the same vector after l2
\* normalisation: the same terms, in proportional counts.
IdenticalVectors(docs) ==
    LET c == CountMatrix(docs) IN
    /\ \A t \in DOMAIN c[1] : c[1][t] > 0 /\ c[2][t] > 0
    /\ \A t, u \in DOMAIN c[1] : c[1][t] * c[2][u] = c[1][u] * c[2][t]

\* C8 as stated: match_score is in [0, 100] and is 100 exactly when the two
\* normalised documents have identical normalised TF-IDF vectors.
C8_HundredIffIdentical ==
    \A r \in AnalyzeIds :
        LET rq == req[r] IN
        Returned(rq) =>
            /\ rq.analysis.match_score \in 0..10000
            /\ rq.analysis.match_score = 10000 <=> IdenticalVectors(rq.corpus)

\* C8, amended: match_score is in [0, 100]; identical normalised vectors give
\* 100; and a score of 100 says only that the cosine is at least 0.99995, the
\* least value that rounds to 100.00.
C8_HundredIfIdentical ==
    \A r \in AnalyzeIds :
        LET rq == req[r] IN
        Returned(rq) =>
            /\ rq.analysis.match_score \in 0..10000
            /\ IdenticalVectors(rq.corpus) => rq.analysis.match_score = 10000
            /\ rq.analysis.match_score = 10000 <=>
                 /\ DotProduct(CountMatrix(rq.corpus)) > 0
                 /\ BigLeq(BigMul(BigOfInt(19999 * 19999),
                                  BigMul(NormSq(CountMatrix(rq.corpus), 1),
                                         NormSq(CountMatrix(rq.corpus), 2))),
                           BigMul(BigOfInt(400000000),
                                  DotSq(DotProduct(CountMatrix(rq.corpus)))))

\* A result of 100 for two documents whose vectors differ.
C8_Witness ==
    \E r \in AnalyzeIds :
        /\ Returned(req[r])
        /\ req[r].analysis.match_score = 10000
        /\ ~IdenticalVectors(req[r].corpus)

C10_KeywordsFromRawText ==
    \A r \in AnalyzeIds :
        LET rq == req[r] IN
        Returned(rq) =>
            /\ rq.jd_keywords = vocabulary_(<<rq.job_description>>)
            /\ rq.resume_keywords = vocabulary_(<<rq.resume_text>>)
            /\ Range(rq.analysis.matched_keywords) \cup Range(rq.analysis.missing_keywords)
                 = vocabulary_(<<rq.job_description>>)
            /\ rq.corpus = <<preprocess_text(spacy_load, rq.resume_text),
                             preprocess_text(spacy_load, rq.job_description)>>

====
